---- MODULE Spec2Model ----
(***************************************************************************)
(* Model of app/src/components/Home/index.jsx: the Home view component,    *)
(* mapStateToProps, and HomeContainer = connect(mapStateToProps,           *)
(* accountActions)(Home).                                                  *)
(*                                                                         *)
(* JavaScript values are records [kind, fn]: reference identity of a       *)
(* function value is equality of the record.  A props object is a          *)
(* function from prop names to values.  A rendered element is a record     *)
(* [type, props, children, text].                                          *)
(***************************************************************************)
EXTENDS Naturals, Sequences, FiniteSets

VARIABLES root, accountActions, storeState, dispatched, invoked, conn, home, earlier

vars == <<root, accountActions, storeState, dispatched, invoked, conn, home, earlier>>

\* ---------------------------------------------------------------- bounds
MaxDispatch == 2

\* ---------------------------------------------------------------- values
FnIds == {"f1", "f2"}
Args == {"a1", "a2"}
ActionNames == {"accountRegister", "accountLogin"}
OwnNames == {"accountRegister", "title"}
StoreStates == {"null", "empty", "object"}

EmptyMap == [k \in {} |-> 0]
Undefined == [kind |-> "undefined", fn |-> "-"]
Fn(f) == [kind |-> "function", fn |-> f]
Bound(f) == [kind |-> "bound", fn |-> f]
Wrapper(f) == [kind |-> "wrapper", fn |-> f]

\* o.k in JavaScript: undefined when the object has no such key
Get(o, k) == IF k \in DOMAIN o THEN o[k] ELSE Undefined

\* { ...a, ...b }
Merge(a, b) == [k \in DOMAIN a \cup DOMAIN b |-> IF k \in DOMAIN b THEN b[k] ELSE a[k]]

Maps(names, values) == UNION {[S -> values] : S \in SUBSET names}

\* ---------------------------------------------------------------- elements
Element(type, props, children) ==
    [type |-> type, props |-> props, children |-> children, text |-> ""]
Text(s) == [type |-> "#text", props |-> EmptyMap, children |-> <<>>, text |-> s]
NoTree == Element("none", EmptyMap, <<>>)

\* ---------------------------------------------------------------- external collaborators
\* An action creator produces a description of an intended state change.
CreatorResult(f, a) == [type |-> f, payload |-> a]

\* Calling a JavaScript value v with argument a: what is dispatched to the
\* store, how many action creators run, and whether the call throws.
CallEffect(v, a) ==
    CASE v.kind = "bound" ->
            [threw |-> FALSE, invoked |-> 1, dispatch |-> <<CreatorResult(v.fn, a)>>]
      [] v.kind = "function" ->
            [threw |-> FALSE, invoked |-> 1, dispatch |-> <<>>]
      [] v.kind = "undefined" ->
            [threw |-> TRUE, invoked |-> 0, dispatch |-> <<>>]
      [] OTHER ->
            [threw |-> FALSE, invoked |-> 0, dispatch |-> <<>>]

\* ---------------------------------------------------------------- Home
\* Home.render: the element tree, the calls made while rendering, and
\* whether rendering throws.
\* Faulty variants of render, each a slip the properties below must detect:
\* wrapping the callback in a new function,
HomeRenderWrapping(props) ==
    [threw |-> FALSE,
     calls |-> <<>>,
     tree |-> Element("div", EmptyMap,
                <<Element("h2", EmptyMap, <<Text("Welcome.")>>),
                  Element("RegistrationForm",
                          [accountRegister |-> Wrapper(Get(props, "accountRegister").fn)],
                          <<>>)>>)]

\* spreading all of this.props onto the form,
HomeRenderSpreading(props) ==
    [threw |-> FALSE,
     calls |-> <<>>,
     tree |-> Element("div", EmptyMap,
                <<Element("h2", EmptyMap, <<Text("Welcome.")>>),
                  Element("RegistrationForm",
                          Merge(props, [accountRegister |-> Get(props, "accountRegister")]),
                          <<>>)>>)]

\* dereferencing the callback (accountRegister.bind), which throws when it is absent,
HomeRenderBinding(props) ==
    [threw |-> Get(props, "accountRegister") = Undefined,
     calls |-> <<>>,
     tree |-> Element("div", EmptyMap,
                <<Element("h2", EmptyMap, <<Text("Welcome.")>>),
                  Element("RegistrationForm",
                          [accountRegister |-> Get(props, "accountRegister")],
                          <<>>)>>)]

\* calling the callback while rendering,
HomeRenderInvoking(props) ==
    [threw |-> FALSE,
     calls |-> IF Get(props, "accountRegister") = Undefined
               THEN <<>>
               ELSE <<[fn |-> Get(props, "accountRegister"), arg |-> "a1"]>>,
     tree |-> Element("div", EmptyMap,
                <<Element("h2", EmptyMap, <<Text("Welcome.")>>),
                  Element("RegistrationForm",
                          [accountRegister |-> Get(props, "accountRegister")],
                          <<>>)>>)]

\* and a heading that depends on another prop.
HomeRenderTitled(props) ==
    [threw |-> FALSE,
     calls |-> <<>>,
     tree |-> Element("div", EmptyMap,
                <<Element("h2", EmptyMap,
                          <<Text(IF "title" \in DOMAIN props THEN "Welcome back." ELSE "Welcome.")>>),
                  Element("RegistrationForm",
                          [accountRegister |-> Get(props, "accountRegister")],
                          <<>>)>>)]

\* render as written.
HomeRender(props) ==
    [threw |-> FALSE,
     calls |-> <<>>,
     tree |-> Element("div", EmptyMap,
                <<Element("h2", EmptyMap, <<Text("Welcome.")>>),
                  Element("RegistrationForm",
                          [accountRegister |-> Get(props, "accountRegister")],
                          <<>>)>>)]

\* ---------------------------------------------------------------- mapStateToProps
\* faulty variant: a mapping that reads the state
MapStateLeaking(state) == [account |-> state]

mapStateToProps(state) == EmptyMap

\* ---------------------------------------------------------------- HomeContainer
\* connect(mapStateToProps, accountActions): the object form of the second
\* argument wraps every action creator into a dispatcher under its own name.
\* faulty variants: creators passed through unbound; only one creator bound
BindNothing(creators) == creators

BindOnlyRegister(creators) ==
    [n \in DOMAIN creators \cap {"accountRegister"} |-> Bound(creators[n].fn)]

BindActionCreators(creators) == [n \in DOMAIN creators |-> Bound(creators[n].fn)]

\* notified: a store notification has reached the container; atMount: the
\* dispatchers it forwarded when it was mounted.
NoConn == [ownProps |-> EmptyMap, stateProps |-> EmptyMap,
           dispatchProps |-> EmptyMap, notified |-> FALSE, atMount |-> EmptyMap]

\* the props the container supplies to Home: { ...ownProps, ...stateProps, ...dispatchProps }
MergedProps(c) == Merge(Merge(c.ownProps, c.stateProps), c.dispatchProps)

ConnectInit(own, state) ==
    [ownProps |-> own,
     stateProps |-> mapStateToProps(state),
     dispatchProps |-> BindActionCreators(accountActions),
     notified |-> FALSE,
     atMount |-> BindActionCreators(accountActions)]

\* the container's reaction to a store notification
\* (faulty variant: the dispatchers are lost on a notification)
HandleChangeDropping(c, state) ==
    [c EXCEPT !.stateProps = mapStateToProps(state),
              !.dispatchProps = EmptyMap,
              !.notified = TRUE]

HandleChange(c, state) ==
    [c EXCEPT !.stateProps = mapStateToProps(state), !.notified = TRUE]

\* ---------------------------------------------------------------- state
NoRender == [props |-> EmptyMap, tree |-> NoTree, threw |-> FALSE]

Init ==
    /\ root = "none"
    /\ accountActions \in Maps(ActionNames, {Fn(f) : f \in FnIds})
    /\ storeState \in StoreStates
    /\ dispatched = <<>>
    /\ invoked = 0
    /\ conn = NoConn
    /\ home = NoRender
    /\ earlier = NoRender

\* what the calls made during a render dispatch, and how many creators they run
RECURSIVE DispatchesOf(_)
DispatchesOf(calls) ==
    IF calls = <<>> THEN <<>>
    ELSE CallEffect(Head(calls).fn, Head(calls).arg).dispatch \o DispatchesOf(Tail(calls))

RECURSIVE InvocationsOf(_)
InvocationsOf(calls) ==
    IF calls = <<>> THEN 0
    ELSE CallEffect(Head(calls).fn, Head(calls).arg).invoked + InvocationsOf(Tail(calls))

\* React calls Home.render with this.props = props; disp and inv are the
\* dispatch log and the invocation count before the render.  earlier keeps
\* any one of the previous renders.
RenderStep(props, disp, inv) ==
    LET r == HomeRender(props) IN
    /\ home' = [props |-> props,
                tree |-> IF r.threw THEN NoTree ELSE r.tree,
                threw |-> r.threw]
    /\ earlier' \in (IF root # "none" THEN {earlier, home} ELSE {earlier})
    /\ dispatched' = disp \o DispatchesOf(r.calls)
    /\ invoked' = inv + InvocationsOf(r.calls)

NoRenderStep(disp, inv) ==
    /\ home' = home
    /\ earlier' = earlier
    /\ dispatched' = disp
    /\ invoked' = inv

\* the RegistrationForm element of the tree Home rendered last
FormIndexes(tree) == {i \in DOMAIN tree.children : tree.children[i].type = "RegistrationForm"}
HeadingIndexes(tree) == {i \in DOMAIN tree.children : tree.children[i].type = "h2"}
FormProps(tree) == tree.children[CHOOSE i \in FormIndexes(tree) : TRUE].props

\* ---------------------------------------------------------------- operations
\* a parent renders <Home {...config} />
MountHome(config) ==
    /\ root = "none"
    /\ root' = "Home"
    /\ RenderStep(config, dispatched, invoked)
    /\ UNCHANGED <<accountActions, storeState, conn>>

\* the parent renders Home again with new props
UpdateHome(config) ==
    /\ root = "Home"
    /\ RenderStep(config, dispatched, invoked)
    /\ UNCHANGED <<root, accountActions, storeState, conn>>

\* a parent renders <HomeContainer {...own} /> under a Provider of the store
MountContainer(own) ==
    /\ root = "none"
    /\ root' = "HomeContainer"
    /\ conn' = ConnectInit(own, storeState)
    /\ RenderStep(MergedProps(conn'), dispatched, invoked)
    /\ UNCHANGED <<accountActions, storeState>>

\* the parent renders HomeContainer again with new own props
UpdateContainer(own) ==
    /\ root = "HomeContainer"
    /\ conn' = [conn EXCEPT !.ownProps = own, !.stateProps = mapStateToProps(storeState)]
    /\ RenderStep(MergedProps(conn'), dispatched, invoked)
    /\ UNCHANGED <<root, accountActions, storeState>>

\* store.dispatch(action): the reducer yields the next state (any state, the
\* same one for a mock store), then the subscribed container is notified; it
\* renders Home again, or skips the render when the props are unchanged.
StoreDispatch(action, inv) ==
    /\ Len(dispatched) < MaxDispatch
    /\ \E s \in StoreStates :
        /\ storeState' = s
        /\ IF root = "HomeContainer"
           THEN /\ conn' = HandleChange(conn, s)
                /\ \/ /\ MergedProps(conn') = home.props
                      /\ NoRenderStep(Append(dispatched, action), inv)
                   \/ RenderStep(MergedProps(conn'), Append(dispatched, action), inv)
           ELSE /\ conn' = conn
                /\ NoRenderStep(Append(dispatched, action), inv)
    /\ UNCHANGED <<root, accountActions>>

\* the RegistrationForm calls the accountRegister prop it was given
FormSubmit(a) ==
    /\ root # "none"
    /\ ~home.threw
    /\ LET eff == CallEffect(FormProps(home.tree).accountRegister, a) IN
        /\ ~eff.threw
        /\ IF eff.dispatch # <<>>
           THEN StoreDispatch(eff.dispatch[1], invoked + eff.invoked)
           ELSE /\ invoked' = invoked + eff.invoked
                /\ invoked < MaxDispatch
                /\ UNCHANGED <<root, accountActions, storeState, dispatched, conn, home, earlier>>

\* another part of the application dispatches to the store
OtherDispatch ==
    StoreDispatch([type |-> "other", payload |-> "a1"], invoked)

Next ==
    \/ \E config \in Maps(OwnNames, {Fn(f) : f \in FnIds}) : MountHome(config)
    \/ \E config \in Maps(OwnNames, {Fn(f) : f \in FnIds}) : UpdateHome(config)
    \/ \E own \in Maps(OwnNames, {Fn(f) : f \in FnIds}) : MountContainer(own)
    \/ \E own \in Maps(OwnNames, {Fn(f) : f \in FnIds}) : UpdateContainer(own)
    \/ \E a \in Args : FormSubmit(a)
    \/ OtherDispatch

Spec == Init /\ [][Next]_vars

\* ---------------------------------------------------------------- properties
Rendered == root # "none"

\* the dispatchers among a props object
DispatchersIn(props) ==
    [n \in {k \in DOMAIN props : props[k].kind = "bound"} |-> props[n]]

\* C1: whenever Home is rendered with a callback f as its accountRegister
\* prop, the tree it renders contains a RegistrationForm whose
\* accountRegister prop is f itself, the same reference.
C1_ForwardsSameReference ==
    (Rendered /\ "accountRegister" \in DOMAIN home.props) =>
        /\ ~home.threw
        /\ \E i \in FormIndexes(home.tree) :
              Get(home.tree.children[i].props, "accountRegister") = home.props.accountRegister

C1_Witness ==
    /\ root = "Home"
    /\ Get(home.props, "accountRegister") = Fn("f2")
    /\ FormProps(home.tree).accountRegister = Fn("f2")

\* C2: mapStateToProps yields the empty mapping for every store state (null,
\* empty or an object), yields it again when applied to its own result, and
\* the props the container derives from state are therefore always empty.
C2_MapStateAlwaysEmpty ==
    /\ mapStateToProps(storeState) = EmptyMap
    /\ mapStateToProps(mapStateToProps(storeState)) = mapStateToProps(storeState)
    /\ \A s \in StoreStates : mapStateToProps(s) = mapStateToProps(storeState)
    /\ root = "HomeContainer" => conn.stateProps = EmptyMap

C2_Witness ==
    /\ root = "HomeContainer"
    /\ conn.notified
    /\ storeState = "null"
    /\ conn.stateProps = EmptyMap

\* C3: once a mounted HomeContainer has received store notifications, the
\* props it derives from state are still empty and the dispatchers it
\* forwards to Home are the ones it forwarded when it was mounted.
C3_NotificationsKeepProps ==
    (root = "HomeContainer" /\ conn.notified) =>
        /\ conn.stateProps = EmptyMap
        /\ DispatchersIn(MergedProps(conn)) = conn.atMount
        /\ DispatchersIn(home.props) = conn.atMount

C3_Witness ==
    /\ root = "HomeContainer"
    /\ conn.notified
    /\ Len(dispatched) = MaxDispatch
    /\ conn.atMount # EmptyMap
    /\ DispatchersIn(home.props) = conn.atMount

\* C4 as stated: with the action creators { accountRegister: fn } the
\* RegistrationForm of the mounted container receives fn itself.
C4_FormReceivesFnItself ==
    (root = "HomeContainer" /\ "accountRegister" \in DOMAIN accountActions) =>
        FormProps(home.tree).accountRegister = accountActions.accountRegister

\* C4 as amended: with the action creators { accountRegister: fn } the
\* RegistrationForm of the mounted container receives the dispatcher that
\* connect bound to fn, which is not fn: calling it with a dispatches fn(a).
C4_FormReceivesBoundFn ==
    (root = "HomeContainer" /\ "accountRegister" \in DOMAIN accountActions) =>
        LET fn == accountActions.accountRegister
            got == FormProps(home.tree).accountRegister
        IN  /\ got = Bound(fn.fn)
            /\ got # fn
            /\ \A a \in Args : CallEffect(got, a).dispatch = <<CreatorResult(fn.fn, a)>>

C4_Witness ==
    /\ root = "HomeContainer"
    /\ accountActions = [accountRegister |-> Fn("f1")]
    /\ FormProps(home.tree).accountRegister = Bound("f1")

\* C5: when Home is rendered without an accountRegister prop, rendering does
\* not throw and yields the heading and the RegistrationForm, whose
\* accountRegister prop is undefined.
C5_RendersWithoutCallback ==
    (Rendered /\ "accountRegister" \notin DOMAIN home.props) =>
        /\ ~home.threw
        /\ HeadingIndexes(home.tree) # {}
        /\ FormIndexes(home.tree) # {}
        /\ Get(FormProps(home.tree), "accountRegister") = Undefined

C5_Witness ==
    /\ root = "Home"
    /\ home.props = EmptyMap
    /\ ~home.threw
    /\ FormProps(home.tree).accountRegister = Undefined

\* C6: every action creator given to connect reaches Home under its own name
\* as a dispatcher; calling that prop with a dispatches the action the
\* creator returns for a; Home receives no dispatcher under any other name.
C6_AllCreatorsBound ==
    root = "HomeContainer" =>
        /\ \A n \in DOMAIN accountActions :
              /\ n \in DOMAIN home.props
              /\ home.props[n].kind = "bound"
              /\ \A a \in Args :
                    CallEffect(home.props[n], a).dispatch
                        = <<CreatorResult(accountActions[n].fn, a)>>
        /\ DOMAIN DispatchersIn(home.props) = DOMAIN accountActions

C6_Witness ==
    /\ root = "HomeContainer"
    /\ DOMAIN accountActions = ActionNames
    /\ accountActions.accountRegister # accountActions.accountLogin
    /\ dispatched # <<>>
    /\ dispatched[Len(dispatched)] = CreatorResult(accountActions.accountRegister.fn, "a2")

\* C7: the RegistrationForm receives the accountRegister prop and no other
\* prop, whatever else Home receives.
C7_ForwardsOnlyAccountRegister ==
    Rendered =>
        /\ ~home.threw
        /\ \A i \in FormIndexes(home.tree) :
              DOMAIN home.tree.children[i].props = {"accountRegister"}

C7_Witness ==
    /\ root = "HomeContainer"
    /\ {"accountLogin", "title"} \subseteq DOMAIN home.props
    /\ DOMAIN FormProps(home.tree) = {"accountRegister"}

\* C8: mounting and re-rendering Home or HomeContainer leaves the store
\* state, the dispatch log and the count of action-creator calls unchanged;
\* a step dispatches one action at most, and a dispatch that is not another
\* part of the application's is the form calling the dispatcher forwarded to it.
C8_RenderHasNoSideEffect ==
    [][ /\ ( \/ \E c \in Maps(OwnNames, {Fn(f) : f \in FnIds}) : MountHome(c)
             \/ \E c \in Maps(OwnNames, {Fn(f) : f \in FnIds}) : UpdateHome(c)
             \/ \E c \in Maps(OwnNames, {Fn(f) : f \in FnIds}) : MountContainer(c)
             \/ \E c \in Maps(OwnNames, {Fn(f) : f \in FnIds}) : UpdateContainer(c) )
           => UNCHANGED <<storeState, dispatched, invoked>>
        /\ dispatched' # dispatched =>
              /\ Len(dispatched') = Len(dispatched) + 1
              /\ SubSeq(dispatched', 1, Len(dispatched)) = dispatched
              /\ LET x == dispatched'[Len(dispatched')] IN
                 \/ x.type = "other" /\ invoked' = invoked
                 \/ /\ Rendered
                    /\ FormProps(home.tree).accountRegister.kind = "bound"
                    /\ x.type = FormProps(home.tree).accountRegister.fn
                    /\ invoked' = invoked + 1
        /\ invoked' # invoked =>
              /\ invoked' = invoked + 1
              /\ Rendered
              /\ FormProps(home.tree).accountRegister.kind \in {"bound", "function"}
        /\ storeState' # storeState => dispatched' # dispatched
      ]_vars

C8_Witness ==
    /\ root = "HomeContainer"
    /\ earlier # NoRender
    /\ Len(dispatched) = 1
    /\ dispatched[1].type # "other"
    /\ invoked = 1

\* C9: two renders of Home that agree on accountRegister yield the same
\* tree, and every tree is one heading 'Welcome.' followed by one
\* RegistrationForm.
C9_TreeDependsOnCallbackOnly ==
    Rendered =>
        /\ ~home.threw
        /\ Len(home.tree.children) = 2
        /\ home.tree.children[1].type = "h2"
        /\ home.tree.children[1].children = <<Text("Welcome.")>>
        /\ home.tree.children[2].type = "RegistrationForm"
        /\ (earlier # NoRender
              /\ Get(earlier.props, "accountRegister") = Get(home.props, "accountRegister"))
           => earlier.tree = home.tree

C9_Witness ==
    /\ Rendered
    /\ earlier # NoRender
    /\ earlier.props # home.props
    /\ Get(earlier.props, "accountRegister") = Get(home.props, "accountRegister")
    /\ Get(home.props, "accountRegister") # Undefined
    /\ earlier.tree = home.tree

====
